---- MODULE Spec2Model ----
(***************************************************************************)
(* Model of AIGenerator.generate_response (backend/ai_generator.py): the   *)
(* bounded tool-calling loop between the inference client and the tool     *)
(* manager.  One invocation is followed from its entry to its return or    *)
(* raise.  The inference client and the tool manager are the environment:  *)
(* every call to them may return any value of a small set or fail.         *)
(*                                                                         *)
(* Python strings are sequences of string pieces, so that an f-string is   *)
(* the concatenation of its pieces.                                        *)
(***************************************************************************)
EXTENDS Integers, Sequences, FiniteSets, TLC

VARIABLES
    pc,                     \* position in generate_response
    query,                  \* argument query
    conversation_history,   \* argument conversation_history (None or a string)
    tools,                  \* argument tools (None, [] or a catalog)
    tool_manager,           \* argument tool_manager (None or a manager)
    system_content,         \* local system_content
    messages,               \* local messages
    round_count,            \* local round_count
    response,               \* local response of the current tool round
    idx,                    \* position of the for loop over response.content
    tool_results,           \* local tool_results
    tool_execution_failed,  \* local tool_execution_failed
    outcome,                \* how the invocation ended: returned value or raised fault
    api_calls,              \* what client.messages.create was called with, and its reply
    tool_calls,             \* what tool_manager.execute_tool was called with, and its reply
    manager_tools,          \* ToolManager.tools: the registered tools in registration order
    last_sources,           \* last_sources of every retrieval tool instance
    last_ran,               \* the retrieval tool instance the manager executed last
    op_result,              \* what the last operation on the manager returned or raised
    frame,                  \* locals of every running RAGSystem.query and its generate_response
    ledger                  \* bookkeeping: what was done to the manager's sources

vars == <<pc, query, conversation_history, tools, tool_manager, system_content, messages,
          round_count, response, idx, tool_results, tool_execution_failed, outcome, api_calls,
          tool_calls>>

\* the tool manager and the queries of the RAG system
sysvars == <<manager_tools, last_sources, last_ran, op_result, frame, ledger>>

----------------------------------------------------------------------------
(* Bounds of the environment *)

\* most content blocks in one response of the inference client
MaxBlocks == 2

\* max_rounds of generate_response
max_rounds == 2

----------------------------------------------------------------------------
(* Values *)

None == [none |-> TRUE]

Some(v) == [none |-> FALSE, val |-> v]

\* Python truthiness of an Optional list or string: None and empty are false
Truthy(x) == /\ ~x.none
             /\ Len(x.val) > 0

\* Python truthiness of an Optional object
IsSet(x) == ~x.none

Queries == {<<"What is machine learning?">>}

ToolCatalog == <<[name |-> "search_course_content"], [name |-> "get_course_outline"]>>

ToolsArgs == {None, Some(<<>>), Some(ToolCatalog)}

ToolManagerArgs == {None, Some("tool_manager")}

Histories == {None, Some(<<"User: hi">>)}

Texts == {<<"Test response">>}

TextBlocks == {[type |-> "text", text |-> t] : t \in Texts}

ToolUseBlocks ==
    {[type |-> "tool_use", id |-> "tool_1", name |-> "get_course_outline",
      input |-> <<"course_name", "ML">>],
     [type |-> "tool_use", id |-> "tool_2", name |-> "search_course_content",
      input |-> <<"query", "machine learning">>]}

Blocks == TextBlocks \cup ToolUseBlocks

SeqsUpTo(S, n) == UNION {[1..k -> S] : k \in 0..n}

Contents == SeqsUpTo(Blocks, MaxBlocks)

StopReasons == {"end_turn", "tool_use", "max_tokens"}

Responses == [stop_reason : StopReasons, content : Contents]

\* faults of client.messages.create
ApiErrors == {<<"API Error">>}

\* return values and faults of tool_manager.execute_tool
ToolOutputs == {<<"Tool execution result">>}

ToolErrors == {<<"Tool failed">>}

NoResponse == [stop_reason |-> "none", content |-> <<>>]

NoOutcome == [kind |-> "none", value |-> <<>>]

Returned(v) == [kind |-> "return", value |-> v]

Raised(e) == [kind |-> "raise", value |-> e]

\* str(n) for the round numbers the code formats
IntStr(n) == CASE n = 0 -> "0" [] n = 1 -> "1" [] n = 2 -> "2" [] n = 3 -> "3"
               [] n = 4 -> "4" [] OTHER -> "n"

----------------------------------------------------------------------------
(* Pieces of generate_response *)

SYSTEM_PROMPT == <<"SYSTEM_PROMPT">>

base_params == [model |-> "model", temperature |-> 0, max_tokens |-> 800]

\* system_content for a conversation_history
SystemContent(h) ==
    IF Truthy(h)
    THEN SYSTEM_PROMPT \o <<"\n\nPrevious conversation:\n">> \o h.val
    ELSE SYSTEM_PROMPT

\* a dict as a function from its keys
DictMerge(a, b) ==
    [k \in DOMAIN a \cup DOMAIN b |-> IF k \in DOMAIN b THEN b[k] ELSE a[k]]

\* api_params that test tools against None only
LoopParamsUnlessNone(msgs, sys, t) ==
    LET plain == DictMerge(base_params, [messages |-> msgs, system |-> sys])
    IN  IF ~t.none
        THEN DictMerge(plain, [tools |-> t.val, tool_choice |-> [type |-> "auto"]])
        ELSE plain

\* api_params of an in-loop call
LoopParams(msgs, sys, t) ==
    LET plain == DictMerge(base_params, [messages |-> msgs, system |-> sys])
    IN  IF Truthy(t)
        THEN DictMerge(plain, [tools |-> t.val, tool_choice |-> [type |-> "auto"]])
        ELSE plain

\* final_params that copy the in-loop parameters, tool catalog included
FinalParamsWithTools(msgs, sys) ==
    DictMerge(base_params,
              [messages |-> msgs, system |-> sys, tools |-> ToolCatalog,
               tool_choice |-> [type |-> "auto"]])

\* a final call that is sent the bare preamble
FinalParamsBarePrompt(msgs, sys) ==
    DictMerge(base_params, [messages |-> msgs, system |-> SYSTEM_PROMPT])

\* final_params of the call after the loop
FinalParams(msgs, sys) ==
    DictMerge(base_params, [messages |-> msgs, system |-> sys])

\* a round_info that numbers the first call as well
RoundInfoNumbered(rc) == <<"Round ", IntStr(rc + 1)>>

\* round_info of an in-loop call
RoundInfo(rc) == IF rc > 0 THEN <<"Round ", IntStr(rc + 1)>> ELSE <<"Initial">>

\* the while condition with an off-by-one comparison
LoopGuardInclusive(rc) == rc <= max_rounds

\* the while condition
LoopGuard(rc) == rc < max_rounds

\* the test without the look at stop_reason
WantsToolsAnyStop(resp, tm) == IsSet(tm)

\* the test without the look at tool_manager
WantsToolsNoManager(resp, tm) == resp.stop_reason = "tool_use"

\* the test that starts a tool round
WantsTools(resp, tm) == /\ resp.stop_reason = "tool_use"
                        /\ IsSet(tm)

\* response.content[-1].text in place of response.content[0].text
LastText(resp) ==
    IF Len(resp.content) = 0
    THEN [ok |-> FALSE, value |-> <<"list index out of range">>]
    ELSE IF resp.content[Len(resp.content)].type = "text"
         THEN [ok |-> TRUE, value |-> resp.content[Len(resp.content)].text]
         ELSE [ok |-> FALSE, value |-> <<"object has no attribute 'text'">>]

\* a read of the text that gives the empty string where there is none
FirstTextOrEmpty(resp) ==
    IF Len(resp.content) > 0 /\ resp.content[1].type = "text"
    THEN [ok |-> TRUE, value |-> resp.content[1].text]
    ELSE [ok |-> TRUE, value |-> <<>>]

\* response.content[0].text: its value, or the fault of evaluating it
FirstText(resp) ==
    IF Len(resp.content) = 0
    THEN [ok |-> FALSE, value |-> <<"list index out of range">>]
    ELSE IF resp.content[1].type = "text"
         THEN [ok |-> TRUE, value |-> resp.content[1].text]
         ELSE [ok |-> FALSE, value |-> <<"object has no attribute 'text'">>]

\* an except clause that absorbs every fault
LoopExceptNeverRaises(rc, e) ==
    Returned(<<"Error in round ", IntStr(rc + 1), ": ">> \o e)

\* an except clause that formats round_count in place of round_count + 1
LoopExceptRoundOff(rc, e) ==
    IF rc = 0
    THEN Raised(e)
    ELSE Returned(<<"Error in round ", IntStr(rc), ": ">> \o e)

\* an except clause that re-raises every fault
LoopExceptAlwaysRaises(rc, e) == Raised(e)

\* the except clause of the loop body
LoopExcept(rc, e) ==
    IF rc = 0
    THEN Raised(e)
    ELSE Returned(<<"Error in round ", IntStr(rc + 1), ": ">> \o e)

\* a final call whose fault is raised
FinalExceptRaises(e) == Raised(e)

\* the except clause of the final call
FinalExcept(e) == Returned(<<"Error generating final response: ">> \o e)

\* a tool_result that carries the tool name where the identifier belongs
ToolResultOkByName(block, out) ==
    [type |-> "tool_result", tool_use_id |-> block.name, content |-> out]

\* the tool_result appended when execute_tool returned
ToolResultOk(block, out) ==
    [type |-> "tool_result", tool_use_id |-> block.id, content |-> out]

\* a tool_result that carries the bare fault text
ToolResultFailedBare(block, e) ==
    [type |-> "tool_result", tool_use_id |-> block.id, content |-> e]

\* the tool_result appended when execute_tool raised
ToolResultFailed(block, e) ==
    [type |-> "tool_result", tool_use_id |-> block.id,
     content |-> <<"Tool execution failed: ">> \o e]

----------------------------------------------------------------------------
(* State machine *)

\* no invocation of generate_response has begun
GeneratorIdle ==
    /\ pc = "idle"
    /\ query = <<>>
    /\ conversation_history = None
    /\ tools = None
    /\ tool_manager = None
    /\ system_content = <<>>
    /\ messages = <<>>
    /\ round_count = 0
    /\ response = NoResponse
    /\ idx = 0
    /\ tool_results = <<>>
    /\ tool_execution_failed = FALSE
    /\ outcome = NoOutcome
    /\ api_calls = <<>>
    /\ tool_calls = <<>>

Init ==
    /\ GeneratorIdle
    /\ manager_tools = <<>>
    /\ last_sources = <<>>
    /\ last_ran = None
    /\ op_result = <<>>
    /\ frame = <<>>
    /\ ledger = <<>>

\* entry of generate_response: system_content, messages, round_count
Enter(q, h, t, tm) ==
    /\ pc = "idle"
    /\ query' = q
    /\ conversation_history' = h
    /\ tools' = t
    /\ tool_manager' = tm
    /\ system_content' = SystemContent(h)
    /\ messages' = <<[role |-> "user", content |-> q]>>
    /\ round_count' = 0
    /\ pc' = "loop"
    /\ UNCHANGED sysvars
    /\ UNCHANGED <<response, idx, tool_results, tool_execution_failed, outcome,
                   api_calls, tool_calls>>

\* the record of one call of client.messages.create
ApiCall(params, info, reply) == [params |-> params, round_info |-> info, reply |-> reply]

\* what a reply is recorded as: its stop_reason, the block generate_response may
\* read the text of, and the first text block the response holds (the blocks of a tool
\* round are kept in response and messages)
ReplyOk(resp) ==
    [failed |-> FALSE, stop_reason |-> resp.stop_reason,
     first |-> SubSeq(resp.content, 1, IF Len(resp.content) > 0 THEN 1 ELSE 0),
     first_text |-> LET texts == SelectSeq(resp.content, LAMBDA b : b.type = "text")
                    IN  SubSeq(texts, 1, IF Len(texts) > 0 THEN 1 ELSE 0),
     error |-> <<>>]

\* the final call's reply: generate_response reads no stop_reason of it, and only
\* its first block is kept
FinalReplyOk(resp) ==
    [ReplyOk(resp) EXCEPT !.stop_reason = "unread", !.first_text = <<>>]

ReplyFailed(e) ==
    [failed |-> TRUE, stop_reason |-> "none", first |-> <<>>, first_text |-> <<>>,
     error |-> e]

\* the replies that end an invocation, each with what reading response.content[0].text
\* of it gives: all of Responses, taken once
LoopReads == {[reply |-> ReplyOk(r), text |-> FirstText(r)] : r \in Responses}

FinalReads == {[reply |-> FinalReplyOk(r), text |-> FirstText(r)] : r \in Responses}

\* the records _call_anthropic_api hands to the logger for one call: the start
\* record, then the completion record or the error record (timestamp, duration,
\* model, tools, stop reason and block count are left out)
CallLog(call) ==
    <<[levelname |-> "INFO",
       message |-> <<"Anthropic API call started - ">> \o call.round_info]>>
    \o IF call.reply.failed
       THEN <<[levelname |-> "ERROR",
               message |-> <<"Anthropic API call failed - ">> \o call.round_info
                           \o <<" - Error: ">> \o call.reply.error]>>
       ELSE <<[levelname |-> "INFO",
               message |-> <<"Anthropic API call completed - ">> \o call.round_info]>>

RECURSIVE LogOf(_)
\* the records of a sequence of calls, in the order the logger received them
LogOf(calls) ==
    IF calls = <<>>
    THEN <<>>
    ELSE LogOf(SubSeq(calls, 1, Len(calls) - 1)) \o CallLog(calls[Len(calls)])

AtLoopCall == /\ pc = "loop"
              /\ LoopGuard(round_count)

\* the in-loop call raises: the except clause decides
LoopCallFails(e) ==
    /\ AtLoopCall
    /\ api_calls' = Append(api_calls,
            ApiCall(LoopParams(messages, system_content, tools),
                    RoundInfo(round_count), ReplyFailed(e)))
    /\ outcome' = LoopExcept(round_count, e)
    /\ pc' = "done"
    /\ UNCHANGED sysvars
    /\ UNCHANGED <<query, conversation_history, tools, tool_manager, system_content, messages, round_count,
                   response, idx, tool_results, tool_execution_failed, tool_calls>>

\* the in-loop call returns a tool request and a tool manager is set: a round starts
LoopCallStartsRound(resp) ==
    /\ AtLoopCall
    /\ WantsTools(resp, tool_manager)
    /\ api_calls' = Append(api_calls,
            ApiCall(LoopParams(messages, system_content, tools),
                    RoundInfo(round_count), ReplyOk(resp)))
    /\ round_count' = round_count + 1
    /\ messages' = Append(messages, [role |-> "assistant", content |-> resp.content])
    /\ response' = resp
    /\ tool_results' = <<>>
    /\ tool_execution_failed' = FALSE
    /\ idx' = 1
    /\ pc' = "dispatch"
    /\ UNCHANGED sysvars
    /\ UNCHANGED <<query, conversation_history, tools, tool_manager, system_content, outcome, tool_calls>>

\* the in-loop call returns anything else: response.content[0].text is returned,
\* and a fault of reading it goes to the except clause
LoopCallReturns(rd) ==
    /\ AtLoopCall
    /\ ~WantsTools(rd.reply, tool_manager)
    /\ api_calls' = Append(api_calls,
            ApiCall(LoopParams(messages, system_content, tools),
                    RoundInfo(round_count), rd.reply))
    /\ outcome' = IF rd.text.ok
                  THEN Returned(rd.text.value)
                  ELSE LoopExcept(round_count, rd.text.value)
    /\ pc' = "done"
    /\ UNCHANGED sysvars
    /\ UNCHANGED <<query, conversation_history, tools, tool_manager, system_content, messages, round_count,
                   response, idx, tool_results, tool_execution_failed, tool_calls>>

AtBlock == /\ pc = "dispatch"
           /\ idx <= Len(response.content)

\* execute_tool called without the arguments of the block
ToolCallNoInput(block, rc, raised, value) ==
    [name |-> block.name, input |-> <<>>, round |-> rc,
     raised |-> raised, value |-> value]

\* the record of one call of tool_manager.execute_tool(name, **input)
ToolCall(block, rc, raised, value) ==
    [name |-> block.name, input |-> block.input, round |-> rc,
     raised |-> raised, value |-> value]

\* a for loop that is left at the first block that is no tool_use block
SkipBlockLeavesLoop ==
    /\ AtBlock
    /\ response.content[idx].type # "tool_use"
    /\ idx' = Len(response.content) + 1
    /\ UNCHANGED sysvars
    /\ UNCHANGED <<pc, query, conversation_history, tools, tool_manager, system_content,
                   messages, round_count, response, tool_results, tool_execution_failed,
                   outcome, api_calls, tool_calls>>

\* the for loop meets a block that is no tool_use block
SkipBlock ==
    /\ AtBlock
    /\ response.content[idx].type # "tool_use"
    /\ idx' = idx + 1
    /\ UNCHANGED sysvars
    /\ UNCHANGED <<pc, query, conversation_history, tools, tool_manager, system_content, messages, round_count,
                   response, tool_results, tool_execution_failed, outcome, api_calls,
                   tool_calls>>

\* execute_tool returns for a tool_use block
DispatchReturns(out) ==
    /\ AtBlock
    /\ response.content[idx].type = "tool_use"
    /\ tool_calls' = Append(tool_calls,
            ToolCall(response.content[idx], round_count, FALSE, out))
    /\ tool_results' = Append(tool_results, ToolResultOk(response.content[idx], out))
    /\ idx' = idx + 1
    /\ UNCHANGED sysvars
    /\ UNCHANGED <<pc, query, conversation_history, tools, tool_manager, system_content, messages, round_count,
                   response, tool_execution_failed, outcome, api_calls>>

\* execute_tool raises for a tool_use block
DispatchRaises(e) ==
    /\ AtBlock
    /\ response.content[idx].type = "tool_use"
    /\ tool_calls' = Append(tool_calls,
            ToolCall(response.content[idx], round_count, TRUE, e))
    /\ tool_execution_failed' = TRUE
    /\ tool_results' = Append(tool_results, ToolResultFailed(response.content[idx], e))
    /\ idx' = idx + 1
    /\ UNCHANGED sysvars
    /\ UNCHANGED <<pc, query, conversation_history, tools, tool_manager, system_content, messages, round_count,
                   response, outcome, api_calls>>

\* results that are never appended
WithToolResultsDropped(msgs, results) == msgs

\* results that take the place of the last message
WithToolResultsOverwriting(msgs, results) ==
    IF results # <<>>
    THEN [msgs EXCEPT ![Len(msgs)] = [role |-> "user", content |-> results]]
    ELSE msgs

\* results that are appended one user message each
WithToolResultsOneEach(msgs, results) ==
    msgs \o [k \in 1..Len(results) |-> [role |-> "user", content |-> <<results[k]>>]]

\* messages after the for loop
WithToolResults(msgs, results) ==
    IF results # <<>>
    THEN Append(msgs, [role |-> "user", content |-> results])
    ELSE msgs

\* a loop that never breaks
AfterRoundNoBreak(failed) == "loop"

\* where the loop goes after the results: break when a dispatch failed, else continue
AfterRound(failed) == IF failed THEN "final" ELSE "loop"

\* a for loop that is left at the first failed dispatch
EndRoundOnFirstFailure ==
    /\ pc = "dispatch"
    /\ \/ idx > Len(response.content)
       \/ tool_execution_failed
    /\ messages' = WithToolResults(messages, tool_results)
    /\ pc' = AfterRound(tool_execution_failed)
    /\ response' = NoResponse
    /\ idx' = 0
    /\ UNCHANGED sysvars
    /\ UNCHANGED <<query, conversation_history, tools, tool_manager, system_content, round_count,
                   tool_results, tool_execution_failed, outcome, api_calls, tool_calls>>

\* after the for loop: append the results, then break or continue
EndRound ==
    /\ pc = "dispatch"
    /\ idx > Len(response.content)
    /\ messages' = WithToolResults(messages, tool_results)
    /\ pc' = AfterRound(tool_execution_failed)
    /\ response' = NoResponse
    /\ idx' = 0
    /\ UNCHANGED sysvars
    /\ UNCHANGED <<query, conversation_history, tools, tool_manager, system_content, round_count,
                   tool_results, tool_execution_failed, outcome, api_calls, tool_calls>>

\* a final call that may be issued from anywhere in the loop
AtFinalCallInLoop == pc \in {"final", "loop"}

\* the loop was left by break, or its condition is false
AtFinalCall == \/ pc = "final"
               \/ /\ pc = "loop"
                  /\ ~LoopGuard(round_count)

\* the final call returns: its first text is returned, a fault of reading it is absorbed
FinalCallReturns(rd) ==
    /\ AtFinalCall
    /\ api_calls' = Append(api_calls,
            ApiCall(FinalParams(messages, system_content), <<"Final">>, rd.reply))
    /\ outcome' = IF rd.text.ok
                  THEN Returned(rd.text.value)
                  ELSE FinalExcept(rd.text.value)
    /\ pc' = "done"
    /\ UNCHANGED sysvars
    /\ UNCHANGED <<query, conversation_history, tools, tool_manager, system_content, messages, round_count,
                   response, idx, tool_results, tool_execution_failed, tool_calls>>

\* the final call raises
FinalCallFails(e) ==
    /\ AtFinalCall
    /\ api_calls' = Append(api_calls,
            ApiCall(FinalParams(messages, system_content), <<"Final">>, ReplyFailed(e)))
    /\ outcome' = FinalExcept(e)
    /\ pc' = "done"
    /\ UNCHANGED sysvars
    /\ UNCHANGED <<query, conversation_history, tools, tool_manager, system_content, messages, round_count,
                   response, idx, tool_results, tool_execution_failed, tool_calls>>

\* the steps of a running invocation
Step ==
    \/ \E e \in ApiErrors : LoopCallFails(e)
    \/ \E resp \in Responses : LoopCallStartsRound(resp)
    \/ \E rd \in LoopReads : LoopCallReturns(rd)
    \/ SkipBlock
    \/ \E out \in ToolOutputs : DispatchReturns(out)
    \/ \E e \in ToolErrors : DispatchRaises(e)
    \/ EndRound
    \/ \E rd \in FinalReads : FinalCallReturns(rd)
    \/ \E e \in ApiErrors : FinalCallFails(e)

Next ==
    \/ \E q \in Queries, h \in Histories, t \in ToolsArgs, tm \in ToolManagerArgs :
          Enter(q, h, t, tm)
    \/ Step

Spec == Init /\ [][Next]_vars

\* a running invocation is not suspended for ever: the code is sequential and
\* every call to the environment returns or raises
FairSpec == Spec /\ WF_vars(Step)

----------------------------------------------------------------------------
(* What the properties below read off a state *)

Done == pc = "done"

Running == pc \notin {"idle", "done"}

\* the tool_use blocks of a content, in order
ToolUses(content) == SelectSeq(content, LAMBDA b : b.type = "tool_use")

\* the reply of the i-th inference call returned a response opening with a text block
OpensWithText(i) == /\ ~api_calls[i].reply.failed
                    /\ api_calls[i].reply.first # <<>>
                    /\ api_calls[i].reply.first[1].type = "text"

\* the reply of the i-th inference call returned a response opening with a tool_use block
OpensWithToolUse(i) == /\ ~api_calls[i].reply.failed
                       /\ api_calls[i].reply.first # <<>>
                       /\ api_calls[i].reply.first[1].type = "tool_use"

TextOf(i) == api_calls[i].reply.first[1].text

\* the i-th inference call carried a tool catalog or a tool_choice
CarriesTools(i) == \/ "tools" \in DOMAIN api_calls[i].params
                   \/ "tool_choice" \in DOMAIN api_calls[i].params

----------------------------------------------------------------------------
(* C1 *)

\* C1 as stated: the round counter stays within 0..2, and in a state where it
\* equals 2 no step dispatches a tool.
C1_NoDispatchAtMax ==
    /\ [](round_count \in 0..max_rounds)
    /\ [][round_count = max_rounds => tool_calls' = tool_calls]_vars

\* C1 amended: the round counter stays within 0..2; it is raised to 2 before the
\* second round's blocks are dispatched, so with the counter at 2 the only
\* dispatches are those of the response that raised it, and once that for loop
\* is left no tool round is entered again, whatever a later response requests.
C1_RoundBudget ==
    /\ [](round_count \in 0..max_rounds)
    /\ [][round_count = max_rounds =>
             /\ (tool_calls' # tool_calls => pc = "dispatch" /\ response' = response)
             /\ (pc # "dispatch" => pc' # "dispatch")
             /\ round_count' = max_rounds]_vars

\* two rounds were counted and dispatched, and the response after them opens with
\* a further tool request, which is not dispatched
C1_Witness ==
    /\ Done
    /\ round_count = max_rounds
    /\ Len(api_calls) = max_rounds + 1
    /\ OpensWithToolUse(max_rounds + 1)
    /\ Len(tool_calls) >= max_rounds
    /\ tool_calls[Len(tool_calls)].round = max_rounds

----------------------------------------------------------------------------
(* C2 *)

\* C2: whatever the inference client and the tools do, an invocation issues at
\* most three inference calls and reaches its return or raise.
C2_Terminates ==
    /\ [](Len(api_calls) <= max_rounds + 1)
    /\ (Running ~> Done)

\* the model requested a tool in each of the three responses and the invocation ended
C2_Witness ==
    /\ Done
    /\ Len(api_calls) = max_rounds + 1
    /\ api_calls[1].reply.stop_reason = "tool_use"
    /\ api_calls[2].reply.stop_reason = "tool_use"
    /\ OpensWithToolUse(1)
    /\ OpensWithToolUse(2)
    /\ OpensWithToolUse(3)

----------------------------------------------------------------------------
(* C3 *)

\* the assistant messages of a message sequence
AssistantMessages(msgs) == SelectSeq(msgs, LAMBDA m : m.role = "assistant")

\* s is a prefix of t, and shorter
ProperPrefix(s, t) == /\ Len(s) < Len(t)
                      /\ SubSeq(t, 1, Len(s)) = s

\* the return value of an absorbed fault of the final call
IsFinalError(o) == /\ o.kind = "return"
                   /\ o.value[1] = "Error generating final response: "

\* C3: when two rounds were counted, the invocation ends after exactly one further
\* inference call (the third), which is sent the accumulated messages (both rounds'
\* messages, after what the second call was sent) and neither tools nor tool_choice;
\* the text of its response is what generate_response returns.  (The text of a call
\* is content[0].text; a final call that fails or opens with no text block gives the
\* error string instead.)
C3_FinalSynthesis ==
    (Done /\ round_count = max_rounds) =>
        /\ Len(api_calls) = max_rounds + 1
        /\ \A i \in 1..max_rounds : api_calls[i].round_info # <<"Final">>
        /\ api_calls[max_rounds + 1].round_info = <<"Final">>
        /\ ~CarriesTools(max_rounds + 1)
        /\ api_calls[max_rounds + 1].params.messages = messages
        /\ ProperPrefix(api_calls[max_rounds].params.messages, messages)
        /\ Len(AssistantMessages(messages)) = max_rounds
        /\ IF OpensWithText(max_rounds + 1)
           THEN outcome = Returned(TextOf(max_rounds + 1))
           ELSE IsFinalError(outcome)

\* two rounds completed without a failure under a supplied catalog, and the third
\* call's text was returned
C3_Witness ==
    /\ Done
    /\ round_count = max_rounds
    /\ ~tool_execution_failed
    /\ Truthy(tools)
    /\ CarriesTools(1)
    /\ CarriesTools(2)
    /\ Len(messages) = 5
    /\ OpensWithText(3)
    /\ outcome = Returned(<<"Test response">>)

----------------------------------------------------------------------------
(* C4 *)

RECURSIVE Requested(_)
\* the tool_use blocks of the assistant messages, in order
Requested(msgs) ==
    IF msgs = <<>>
    THEN <<>>
    ELSE (IF Head(msgs).role = "assistant" THEN ToolUses(Head(msgs).content) ELSE <<>>)
         \o Requested(Tail(msgs))

NoDispatchFailed == \A k \in 1..Len(tool_calls) : ~tool_calls[k].raised

TwoRoundsDone == /\ Done
                 /\ round_count = max_rounds
                 /\ NoDispatchFailed

\* each of the two tool-requesting responses holds at least one tool_use block
BothRequestATool ==
    \A r \in 1..max_rounds : ToolUses(AssistantMessages(messages)[r].content) # <<>>

\* C4 as stated: an exchange with two tool rounds (a tool requested in the first and in
\* the second response) and no failed dispatch has three inference calls and exactly
\* two dispatches, and returns the third call's text.
C4_TwoDispatches ==
    (TwoRoundsDone /\ BothRequestATool) =>
        /\ Len(api_calls) = 3
        /\ Len(tool_calls) = 2
        /\ (OpensWithText(3) => outcome = Returned(TextOf(3)))

\* C4 amended: an exchange with two tool rounds and no failed dispatch has three
\* inference calls; one dispatch is made for every tool_use block of the two
\* responses (two dispatches when each response holds one block), in the order of the
\* blocks and with each block's name and input; the third call's text is returned
\* unchanged.
C4_PerBlock ==
    TwoRoundsDone =>
        /\ Len(api_calls) = 3
        /\ Len(tool_calls) = Len(Requested(messages))
        /\ \A k \in 1..Len(tool_calls) :
              /\ tool_calls[k].name = Requested(messages)[k].name
              /\ tool_calls[k].input = Requested(messages)[k].input
        /\ \A k \in 1..(Len(tool_calls) - 1) : tool_calls[k].round <= tool_calls[k + 1].round
        /\ (OpensWithText(3) => outcome = Returned(TextOf(3)))

\* the outline tool in round 1, the search tool in round 2, then the text
C4_Witness ==
    /\ TwoRoundsDone
    /\ Len(tool_calls) = 2
    /\ tool_calls[1].name = "get_course_outline"
    /\ tool_calls[1].input = <<"course_name", "ML">>
    /\ tool_calls[1].round = 1
    /\ tool_calls[2].name = "search_course_content"
    /\ tool_calls[2].input = <<"query", "machine learning">>
    /\ tool_calls[2].round = 2
    /\ OpensWithText(3)
    /\ outcome = Returned(<<"Test response">>)

----------------------------------------------------------------------------
(* C5 *)

\* the first response requested a tool and the second call answered with text
OneRoundDone == /\ Done
                /\ round_count = 1
                /\ Len(api_calls) >= 2
                /\ api_calls[1].reply.stop_reason = "tool_use"
                /\ OpensWithText(2)

\* C5 as stated: such an exchange, its first response holding a tool_use block, has
\* two inference calls and exactly one dispatch, and returns the second call's text.
C5_OneDispatch ==
    (OneRoundDone /\ ToolUses(messages[2].content) # <<>>) =>
        /\ Len(api_calls) = 2
        /\ Len(tool_calls) = 1
        /\ outcome = Returned(TextOf(2))

\* C5 amended: such an exchange has two inference calls; one dispatch is made for
\* every tool_use block of the first response (one dispatch when it holds one
\* block), with the block's name and input; the second call's text is returned.
C5_PerBlock ==
    OneRoundDone =>
        /\ Len(api_calls) = 2
        /\ Len(tool_calls) = Len(ToolUses(messages[2].content))
        /\ \A k \in 1..Len(tool_calls) :
              /\ tool_calls[k].name = ToolUses(messages[2].content)[k].name
              /\ tool_calls[k].input = ToolUses(messages[2].content)[k].input
              /\ tool_calls[k].round = 1
        /\ outcome = Returned(TextOf(2))

\* one search dispatched in round 1, the in-loop second call answers with text
C5_Witness ==
    /\ OneRoundDone
    /\ NoDispatchFailed
    /\ api_calls[2].round_info = <<"Round ", "2">>
    /\ Len(tool_calls) = 1
    /\ tool_calls[1].name = "search_course_content"
    /\ tool_calls[1].input = <<"query", "machine learning">>
    /\ messages[3].content[1].content = <<"Tool execution result">>

----------------------------------------------------------------------------
(* C6 *)

\* C6: once the first response is there and does not signal tool use, the invocation
\* has ended with that one inference call and no dispatch, and what it returns is
\* that response's text (content[0].text; a response that opens with no text block
\* makes the first call's handler raise), with or without catalog and registry.
C6_NoToolFirst ==
    (/\ Len(api_calls) >= 1
     /\ ~api_calls[1].reply.failed
     /\ api_calls[1].reply.stop_reason # "tool_use") =>
        /\ Done
        /\ Len(api_calls) = 1
        /\ tool_calls = <<>>
        /\ round_count = 0
        /\ IF OpensWithText(1)
           THEN outcome = Returned(TextOf(1))
           ELSE outcome.kind = "raise"

\* catalog and registry supplied, the first response ends the turn with text
C6_Witness ==
    /\ Done
    /\ Truthy(tools)
    /\ IsSet(tool_manager)
    /\ Len(api_calls) = 1
    /\ CarriesTools(1)
    /\ api_calls[1].reply.stop_reason = "end_turn"
    /\ outcome = Returned(<<"Test response">>)

----------------------------------------------------------------------------
(* C7 *)

\* C7 as stated: with no catalog, one inference call and its text returned,
\* for every registry argument and every stop signal.
C7_NoCatalogOneCall ==
    (Done /\ ~Truthy(tools)) =>
        /\ Len(api_calls) = 1
        /\ (OpensWithText(1) => outcome = Returned(TextOf(1)))

\* C7 amended: with no catalog, one inference call occurs and its text is returned
\* for every registry argument and every stop signal except the pair of a supplied
\* registry and a tool_use stop signal, which starts a tool round although no
\* catalog was sent.
C7_NoCatalogUnlessRound ==
    (/\ ~Truthy(tools)
     /\ Len(api_calls) >= 1
     /\ ~(api_calls[1].reply.stop_reason = "tool_use" /\ IsSet(tool_manager))) =>
        /\ Done
        /\ Len(api_calls) = 1
        /\ ~CarriesTools(1)
        /\ tool_calls = <<>>
        /\ (OpensWithText(1) => outcome = Returned(TextOf(1)))

\* no catalog, no registry, a tool_use stop signal: the text is returned after one call
C7_Witness ==
    /\ Done
    /\ ~Truthy(tools)
    /\ ~IsSet(tool_manager)
    /\ Len(api_calls) = 1
    /\ api_calls[1].reply.stop_reason = "tool_use"
    /\ outcome = Returned(<<"Test response">>)

----------------------------------------------------------------------------
(* C8 *)

DispatchFailedInRound(r) ==
    \E k \in 1..Len(tool_calls) : tool_calls[k].round = r /\ tool_calls[k].raised

IsToolResultMessage(m) ==
    /\ m.role = "user"
    /\ m.content # <<>>
    /\ \A j \in 1..Len(m.content) : m.content[j].type = "tool_result"

\* C8: after a dispatch of round 1 has raised, the round counter stays at 1 and no
\* dispatch of a second round is made; when the for loop is left the round's
\* tool-result message is the last message; the invocation ends after exactly one more
\* inference call, the final one, which is sent those messages and no tool catalog,
\* and it returns (that call's text when its response opens with a text block), never
\* raises.
C8_FailureStopsRounds ==
    DispatchFailedInRound(1) =>
        /\ round_count = 1
        /\ \A k \in 1..Len(tool_calls) : tool_calls[k].round = 1
        /\ outcome.kind # "raise"
        /\ pc \in {"dispatch", "final", "done"}
        /\ pc # "dispatch" =>
              /\ Len(messages) = 3
              /\ IsToolResultMessage(messages[3])
        /\ pc = "final" => Len(api_calls) = 1
        /\ Done =>
              /\ Len(api_calls) = 2
              /\ api_calls[2].round_info = <<"Final">>
              /\ ~CarriesTools(2)
              /\ api_calls[2].params.messages = messages
              /\ outcome.kind = "return"
              /\ (OpensWithText(2) => outcome = Returned(TextOf(2)))

\* a dispatch of round 1 raised under a supplied catalog, its failure text was
\* appended, and the text of the one further call is returned
C8_Witness ==
    /\ Done
    /\ DispatchFailedInRound(1)
    /\ Truthy(tools)
    /\ CarriesTools(1)
    /\ Len(api_calls) = 2
    /\ messages[3].content[1].content = <<"Tool execution failed: ", "Tool failed">>
    /\ outcome = Returned(<<"Test response">>)

----------------------------------------------------------------------------
(* C9 *)

\* the identifiers of a sequence of tool_use blocks
BlockIds(blocks) == [k \in 1..Len(blocks) |-> blocks[k].id]

\* the identifiers a sequence of tool_results answers
ResultIds(results) == [k \in 1..Len(results) |-> results[k].tool_use_id]

\* the rounds whose for loop is over
RoundsOver == IF pc = "dispatch" THEN round_count - 1 ELSE round_count

\* the position in messages of the r-th assistant message
AssistantPos(r) ==
    CHOOSE j \in 1..Len(messages) :
        /\ messages[j].role = "assistant"
        /\ Len(AssistantMessages(SubSeq(messages, 1, j))) = r

\* C9: for every round whose for loop is over, the message after the round's
\* assistant message is a user message of tool_results that answers the tool_use
\* blocks of that assistant message one for one, in their order and with their
\* identifiers (and no such message is appended when the response holds no tool_use
\* block); the results collected inside the for loop match the blocks passed so far;
\* and every message of tool_results follows the assistant message it answers.
C9_OneResultPerRequest ==
    /\ Len(AssistantMessages(messages)) = round_count
    /\ \A r \in 1..RoundsOver :
          LET j == AssistantPos(r)
              asked == ToolUses(messages[j].content)
          IN  IF asked = <<>>
              THEN j = Len(messages) \/ messages[j + 1].role = "assistant"
              ELSE /\ j < Len(messages)
                   /\ IsToolResultMessage(messages[j + 1])
                   /\ ResultIds(messages[j + 1].content) = BlockIds(asked)
    /\ pc = "dispatch" =>
          /\ messages[Len(messages)].content = response.content
          /\ ResultIds(tool_results) =
                 BlockIds(ToolUses(SubSeq(response.content, 1, idx - 1)))
    /\ \A j \in 2..Len(messages) :
          messages[j].role = "user" =>
              /\ IsToolResultMessage(messages[j])
              /\ messages[j - 1].role = "assistant"
              /\ ResultIds(messages[j].content) = BlockIds(ToolUses(messages[j - 1].content))
    /\ Len(messages) >= 1 => messages[1] = [role |-> "user", content |-> query]

\* a round with two tool_use blocks of different identifiers, the first of which
\* failed, was answered by two results in the same order
C9_Witness ==
    /\ pc # "dispatch"
    /\ Len(messages) >= 3
    /\ Len(messages[2].content) = 2
    /\ BlockIds(ToolUses(messages[2].content)) = <<"tool_2", "tool_1">>
    /\ ResultIds(messages[3].content) = <<"tool_2", "tool_1">>
    /\ messages[3].content[1].content = <<"Tool execution failed: ", "Tool failed">>
    /\ messages[3].content[2].content = <<"Tool execution result">>

----------------------------------------------------------------------------
(* C10 *)

RECURSIVE Answered(_)
\* the tool_results of the user messages that follow the query, in order
Answered(msgs) ==
    IF msgs = <<>>
    THEN <<>>
    ELSE (IF Head(msgs).role = "user" THEN Head(msgs).content ELSE <<>>)
         \o Answered(Tail(msgs))

\* every tool_result produced so far, appended to messages or still in tool_results
AllResults ==
    IF messages = <<>>
    THEN <<>>
    ELSE Answered(Tail(messages)) \o (IF pc = "dispatch" THEN tool_results ELSE <<>>)

\* C10: a dispatch that raised never makes generate_response raise; for the k-th
\* dispatch there is the k-th tool_result, which carries the identifier of the k-th
\* requested block, and when the dispatch raised its content is
\* 'Tool execution failed: ' followed by the fault's text.
C10_FaultBecomesResult ==
    /\ (tool_calls # <<>> => outcome.kind # "raise")
    /\ Len(AllResults) = Len(tool_calls)
    /\ \A k \in 1..Len(tool_calls) :
          /\ AllResults[k].tool_use_id = Requested(messages)[k].id
          /\ tool_calls[k].name = Requested(messages)[k].name
          /\ IF tool_calls[k].raised
             THEN AllResults[k].content = <<"Tool execution failed: ">> \o tool_calls[k].value
             ELSE AllResults[k].content = tool_calls[k].value

\* the search tool raised in round 1 and the invocation still returned a text
C10_Witness ==
    /\ Done
    /\ Len(tool_calls) = 1
    /\ tool_calls[1].raised
    /\ tool_calls[1].name = "search_course_content"
    /\ AllResults = <<[type |-> "tool_result", tool_use_id |-> "tool_2",
                       content |-> <<"Tool execution failed: ", "Tool failed">>]>>
    /\ outcome.kind = "return"

----------------------------------------------------------------------------
(* C11 *)

\* the dispatches of round r, in order
CallsOfRound(r) == SelectSeq(tool_calls, LAMBDA c : c.round = r)

\* C11: a failed dispatch does not end the for loop.  For every round whose for loop
\* is over, failed or not, there is one dispatch and one appended result for every
\* tool_use block of the round's response, in the order of the blocks; inside the for
\* loop the dispatches match the blocks passed so far; and the loop is left by break
\* (towards the final call) only with every block of the response processed.
C11_ProcessAllThenBreak ==
    /\ \A r \in 1..RoundsOver :
          LET asked == ToolUses(AssistantMessages(messages)[r].content)
              calls == CallsOfRound(r)
          IN  /\ Len(calls) = Len(asked)
              /\ \A k \in 1..Len(calls) :
                    /\ calls[k].name = asked[k].name
                    /\ calls[k].input = asked[k].input
              /\ asked # <<>> =>
                    Len(messages[AssistantPos(r) + 1].content) = Len(asked)
    /\ pc = "dispatch" =>
          Len(CallsOfRound(round_count)) = Len(ToolUses(SubSeq(response.content, 1, idx - 1)))
    /\ pc = "final" =>
          /\ tool_execution_failed
          /\ DispatchFailedInRound(round_count)

\* the first of two tool_use blocks failed, the second was still dispatched and
\* answered, and only then the loop was left by break
C11_Witness ==
    /\ pc = "final"
    /\ round_count = 1
    /\ Len(tool_calls) = 2
    /\ tool_calls[1].raised
    /\ ~tool_calls[2].raised
    /\ tool_calls[2].name = "search_course_content"
    /\ ResultIds(messages[3].content) = <<"tool_1", "tool_2">>
    /\ messages[3].content[2].content = <<"Tool execution result">>

----------------------------------------------------------------------------
(* C12 *)

\* C12: once the first inference call has failed, the invocation has ended by raising
\* that failure: no second call, no dispatch, no message appended, nothing returned.
C12_FirstFailureRaises ==
    (Len(api_calls) >= 1 /\ api_calls[1].reply.failed) =>
        /\ Done
        /\ Len(api_calls) = 1
        /\ tool_calls = <<>>
        /\ round_count = 0
        /\ messages = <<[role |-> "user", content |-> query]>>
        /\ outcome = Raised(api_calls[1].reply.error)

\* the first call failed under a supplied catalog and registry, and its fault was raised
C12_Witness ==
    /\ Done
    /\ Truthy(tools)
    /\ IsSet(tool_manager)
    /\ Len(api_calls) = 1
    /\ api_calls[1].round_info = <<"Initial">>
    /\ api_calls[1].reply.failed
    /\ outcome = [kind |-> "raise", value |-> <<"API Error">>]

----------------------------------------------------------------------------
(* C13 *)

\* the i-th inference call is an in-loop call that failed
LoopCallFailed(i) == /\ api_calls[i].reply.failed
                     /\ api_calls[i].round_info # <<"Final">>

\* C13: an in-loop call that fails after k >= 1 counted rounds is the last call of the
\* invocation (no final call follows), and the invocation ends by returning
\* 'Error in round <k+1>: <cause>', k being the number of rounds counted, which is the
\* number of tool-request messages appended.
C13_LaterFailureReturnsText ==
    \A i \in 2..Len(api_calls) :
        LoopCallFailed(i) =>
            /\ Done
            /\ i = Len(api_calls)
            /\ round_count = i - 1
            /\ Len(AssistantMessages(messages)) = i - 1
            /\ outcome = [kind |-> "return",
                          value |-> <<"Error in round ", IntStr(i), ": ">>
                                    \o api_calls[i].reply.error]

\* one round was dispatched, then the second in-loop call failed
C13_Witness ==
    /\ Done
    /\ round_count = 1
    /\ Len(tool_calls) >= 1
    /\ Len(api_calls) = 2
    /\ api_calls[2].round_info = <<"Round ", "2">>
    /\ api_calls[2].reply.failed
    /\ outcome = [kind |-> "return",
                  value |-> <<"Error in round ", "2", ": ", "API Error">>]

----------------------------------------------------------------------------
(* C14 *)

\* the i-th inference call is the final call and failed
FinalCallFailed(i) == /\ api_calls[i].reply.failed
                      /\ api_calls[i].round_info = <<"Final">>

\* C14: a final call that fails ends the invocation by returning
\* 'Error generating final response: <cause>'; nothing is raised.
C14_FinalFailureReturnsText ==
    \A i \in 1..Len(api_calls) :
        FinalCallFailed(i) =>
            /\ Done
            /\ i = Len(api_calls)
            /\ ~CarriesTools(i)
            /\ outcome = [kind |-> "return",
                          value |-> <<"Error generating final response: ">>
                                    \o api_calls[i].reply.error]

\* two rounds were completed and the final call failed
C14_Witness ==
    /\ Done
    /\ round_count = max_rounds
    /\ NoDispatchFailed
    /\ Len(api_calls) = max_rounds + 1
    /\ FinalCallFailed(max_rounds + 1)
    /\ outcome = [kind |-> "return",
                  value |-> <<"Error generating final response: ", "API Error">>]

----------------------------------------------------------------------------
(* C15 *)

\* C15 as stated: generate_response raises only when its first inference call failed.
C15_OnlyFirstCallFailureEscapes ==
    outcome.kind = "raise" =>
        /\ Len(api_calls) = 1
        /\ api_calls[1].reply.failed
        /\ outcome.value = api_calls[1].reply.error

----------------------------------------------------------------------------
(* C16 *)

\* C16: from the moment a round is counted nothing is raised, and an invocation that
\* ends after a counted round ends by returning a string, whatever failed after the
\* count: a dispatch, the next in-loop call, the reading of its response, or the final
\* call.
C16_ReturnsAfterProgress ==
    round_count >= 1 =>
        /\ outcome.kind # "raise"
        /\ Done => /\ outcome.kind = "return"
                   /\ Len(outcome.value) >= 1

\* after a round with a failed dispatch the final call failed too, and a string came back
C16_Witness ==
    /\ Done
    /\ round_count = 1
    /\ DispatchFailedInRound(1)
    /\ api_calls[Len(api_calls)].reply.failed
    /\ outcome.kind = "return"
    /\ outcome.value[1] = "Error generating final response: "

----------------------------------------------------------------------------
(* C17 *)

\* the i-th inference call is an in-loop call whose response is treated as terminal
\* though it is no plain text answer: a tool request without a registry, or a stop
\* signal other than end_turn and tool_use
TerminalNonText(i) ==
    /\ ~api_calls[i].reply.failed
    /\ api_calls[i].round_info # <<"Final">>
    /\ \/ api_calls[i].reply.stop_reason = "tool_use" /\ ~IsSet(tool_manager)
       \/ api_calls[i].reply.stop_reason \notin {"end_turn", "tool_use"}

\* C17 as stated: such a response ends the exchange without a dispatch, and the first
\* text block it holds is returned, wherever in the content that block is.
C17_ReturnsFirstTextAvailable ==
    \A i \in 1..Len(api_calls) :
        TerminalNonText(i) =>
            /\ Done
            /\ i = Len(api_calls)
            /\ round_count = i - 1
            /\ \A k \in 1..Len(tool_calls) : tool_calls[k].round < i
            /\ api_calls[i].reply.first_text # <<>> =>
                  outcome = Returned(api_calls[i].reply.first_text[1].text)

----------------------------------------------------------------------------
(* C18 *)

\* the messages the i-th inference call was sent
Sent(i) == api_calls[i].params.messages

\* the dispatches of the rounds before the i-th inference call, in order
CallsBefore(i) == SelectSeq(tool_calls, LAMBDA c : c.round < i)

\* what the tool_result of a dispatch holds
ResultContent(c) == IF c.raised THEN <<"Tool execution failed: ">> \o c.value ELSE c.value

\* C18: no inference call is issued inside a for loop of dispatches, and every
\* inference call after the first is sent, for each round before it, the round's
\* assistant message and the results of all dispatches of that round: the results in
\* the messages it is sent are those of every dispatch made before it, in order.
C18_CallsFollowCompletedRounds ==
    /\ pc = "dispatch" => Len(api_calls) = round_count
    /\ \A k \in 1..Len(tool_calls) : tool_calls[k].round <= Len(api_calls)
    /\ \A i \in 2..Len(api_calls) :
          /\ Len(AssistantMessages(Sent(i))) = i - 1
          /\ Len(Answered(Tail(Sent(i)))) = Len(CallsBefore(i))
          /\ \A k \in 1..Len(CallsBefore(i)) :
                Answered(Tail(Sent(i)))[k].content = ResultContent(CallsBefore(i)[k])
          /\ Len(Requested(Sent(i))) = Len(CallsBefore(i))
          /\ CallsOfRound(i - 1) # <<>> =>
                /\ IsToolResultMessage(Sent(i)[Len(Sent(i))])
                /\ Len(Sent(i)[Len(Sent(i))].content) = Len(CallsOfRound(i - 1))

\* three calls; the second was sent the result of round 1, the third those of both rounds
C18_Witness ==
    /\ Done
    /\ Len(api_calls) = 3
    /\ Len(tool_calls) = 3
    /\ Len(CallsBefore(2)) = 1
    /\ Len(Answered(Tail(Sent(2)))) = 1
    /\ Len(Answered(Tail(Sent(3)))) = 3
    /\ Sent(3)[5].content[2].content = <<"Tool execution failed: ", "Tool failed">>

----------------------------------------------------------------------------
(* C19 *)

\* s is a prefix of t
Prefix(s, t) == /\ Len(s) <= Len(t)
                /\ SubSeq(t, 1, Len(s)) = s

\* what holds of the sequences sent so far
SentSoFar ==
    /\ Len(api_calls) >= 1 =>
          /\ Sent(1) = <<[role |-> "user", content |-> query]>>
          /\ Prefix(Sent(Len(api_calls)), messages)
    /\ \A i \in 2..Len(api_calls) : ProperPrefix(Sent(i - 1), Sent(i))
    /\ pc # "idle" => /\ Len(messages) >= 1
                      /\ messages[1] = [role |-> "user", content |-> query]

\* C19: every step leaves the messages it found in place and only appends to them; the
\* first inference call is sent exactly one user message holding the query; and every
\* later call, the final one included, is sent a sequence that extends the one sent to
\* the call before it.
C19_AppendOnly == [][Prefix(messages, messages') /\ SentSoFar']_vars

\* the final call was sent five messages that extend the three of the second call
C19_Witness ==
    /\ Done
    /\ Len(api_calls) = 3
    /\ api_calls[3].round_info = <<"Final">>
    /\ Len(Sent(1)) = 1
    /\ Len(Sent(2)) = 3
    /\ Len(Sent(3)) = 5
    /\ SubSeq(Sent(3), 1, 3) = Sent(2)

----------------------------------------------------------------------------
(* C20 *)

\* C20: an in-loop call, the first or a later one, carries tools (the catalog supplied)
\* and tool_choice {type: auto} when a non-empty catalog was supplied, and neither key
\* when tools is None or empty.
C20_CatalogIffSupplied ==
    \A i \in 1..Len(api_calls) :
        api_calls[i].round_info # <<"Final">> =>
            IF Truthy(tools)
            THEN /\ "tools" \in DOMAIN api_calls[i].params
                 /\ "tool_choice" \in DOMAIN api_calls[i].params
                 /\ api_calls[i].params.tools = tools.val
                 /\ api_calls[i].params.tool_choice = [type |-> "auto"]
            ELSE /\ "tools" \notin DOMAIN api_calls[i].params
                 /\ "tool_choice" \notin DOMAIN api_calls[i].params

\* a catalog was supplied and both in-loop calls carried it
C20_Witness ==
    /\ Truthy(tools)
    /\ Len(api_calls) >= 2
    /\ api_calls[1].round_info = <<"Initial">>
    /\ api_calls[2].round_info = <<"Round ", "2">>
    /\ api_calls[1].params.tools = ToolCatalog
    /\ api_calls[2].params.tools = ToolCatalog
    /\ api_calls[2].params.tool_choice = [type |-> "auto"]

----------------------------------------------------------------------------
(* C21 *)

\* a history was provided: conversation_history is neither None nor the empty string
HistoryProvided == /\ ~conversation_history.none
                   /\ Len(conversation_history.val) > 0

\* C21: the system context is the preamble followed by the "Previous conversation:"
\* section and the history when a history is provided, and exactly the preamble
\* otherwise; every inference call of the invocation, the final one included, is sent
\* that same system context.
C21_SystemContext ==
    pc # "idle" =>
        /\ HistoryProvided =>
              system_content =
                  SYSTEM_PROMPT \o <<"\n\nPrevious conversation:\n">> \o conversation_history.val
        /\ ~HistoryProvided => system_content = SYSTEM_PROMPT
        /\ \A i \in 1..Len(api_calls) : api_calls[i].params.system = system_content

\* with a history, three calls were made and the final one was sent preamble and history
C21_Witness ==
    /\ Done
    /\ HistoryProvided
    /\ Len(api_calls) = 3
    /\ api_calls[3].round_info = <<"Final">>
    /\ api_calls[1].params.system = api_calls[3].params.system
    /\ api_calls[3].params.system =
           <<"SYSTEM_PROMPT", "\n\nPrevious conversation:\n", "User: hi">>

----------------------------------------------------------------------------
(* Tool manager and retrieval tools (search_tools.py) *)

\* the tool instances: the two tools of the RAG system, a second search tool whose
\* definition has the name of the first, and a tool whose definition has no name
ToolInstances == {"search_tool", "outline_tool", "second_search_tool", "unnamed_tool"}

\* get_tool_definition().get("name")
DefinitionName(t) ==
    CASE t = "search_tool" -> Some("search_course_content")
      [] t = "second_search_tool" -> Some("search_course_content")
      [] t = "outline_tool" -> Some("get_course_outline")
      [] OTHER -> None

\* the names a tool_use block may carry
DispatchNames == {"search_course_content", "get_course_outline", "nonexistent_tool"}

\* the keys of ToolManager.tools
RegisteredNames(reg) == {reg[i].name : i \in 1..Len(reg)}

\* ToolManager.tools[name]
Resolve(reg, name) ==
    IF name \in RegisteredNames(reg)
    THEN Some(reg[CHOOSE i \in 1..Len(reg) : reg[i].name = name].tool)
    ELSE None

\* a registration that keeps the tool first registered under a name
DictSetKeepFirst(reg, name, t) ==
    IF name \in RegisteredNames(reg)
    THEN reg
    ELSE Append(reg, [name |-> name, tool |-> t])

\* ToolManager.tools[name] = t: a name already present keeps its place
DictSet(reg, name, t) ==
    IF name \in RegisteredNames(reg)
    THEN [i \in 1..Len(reg) |-> IF reg[i].name = name
                                THEN [name |-> name, tool |-> t]
                                ELSE reg[i]]
    ELSE Append(reg, [name |-> name, tool |-> t])

\* a registration that files a tool without a name under the empty name
RegisterToolUnchecked(reg, t) ==
    [tools |-> DictSet(reg, IF DefinitionName(t).none THEN "" ELSE DefinitionName(t).val, t),
     outcome |-> Returned(<<>>)]

\* ToolManager.register_tool(t): the tools afterwards and how the call ended
RegisterTool(reg, t) ==
    IF DefinitionName(t).none
    THEN [tools |-> reg, outcome |-> Raised(<<"Tool must have a 'name' in its definition">>)]
    ELSE [tools |-> DictSet(reg, DefinitionName(t).val, t), outcome |-> Returned(<<>>)]

\* ToolManager.get_tool_definitions(): the catalog, in registration order
GetToolDefinitions(reg) == [i \in 1..Len(reg) |-> [name |-> reg[i].name]]

\* what the search capability answers: matched passages, no match, or a fault
Passage(title, lesson, link, text) ==
    [course_title |-> title, lesson_number |-> lesson, link |-> link, text |-> text]

SearchMatches ==
    {<<Passage("Test Course", Some("1"), Some("http://example.com/lesson1"), "Test content 1"),
       Passage("Test Course", Some("2"), Some("http://example.com/lesson2"), "Test content 2")>>,
     <<Passage("Test Course", None, None, "Test content")>>}

SearchFaults == {<<"Database error">>}

SearchAnswers ==
    {[kind |-> "matches", passages |-> m, error |-> <<>>] : m \in SearchMatches}
    \cup {[kind |-> "empty", passages |-> <<>>, error |-> <<>>]}
    \cup {[kind |-> "fault", passages |-> <<>>, error |-> e] : e \in SearchFaults}

\* the citation of a passage: "Course Title - Lesson N", the lesson left out when absent
Citation(p) ==
    IF p.lesson_number.none
    THEN <<p.course_title>>
    ELSE <<p.course_title, " - Lesson ", p.lesson_number.val>>

\* the attribution recorded for a passage
Attribution(p) == [text |-> Citation(p), link |-> p.link]

\* one formatted section: the bracketed citation, then the passage text
Section(p) == <<"[">> \o Citation(p) \o <<"]", "\n", p.text>>

RECURSIVE JoinSections(_)
\* the sections separated by blank lines
JoinSections(passages) ==
    IF passages = <<>>
    THEN <<>>
    ELSE IF Len(passages) = 1
         THEN Section(passages[1])
         ELSE Section(passages[1]) \o <<"\n\n">> \o JoinSections(Tail(passages))

\* attributions that are added to the ones recorded before
RecordedSourcesAppended(before, passages) ==
    before \o [i \in 1..Len(passages) |-> Attribution(passages[i])]

\* last_sources after the formatting step: one attribution per section
RecordedSources(before, passages) ==
    [i \in 1..Len(passages) |-> Attribution(passages[i])]

\* an execute that turns a fault of the search capability into its text
ExecuteSwallowing(before, answer) ==
    CASE answer.kind = "matches" ->
            [outcome |-> Returned(JoinSections(answer.passages)),
             last_sources |-> RecordedSources(before, answer.passages)]
      [] answer.kind = "empty" ->
            [outcome |-> Returned(<<"No relevant content found">>), last_sources |-> before]
      [] OTHER ->
            [outcome |-> Returned(answer.error), last_sources |-> before]

\* a retrieval tool's execute(**args) for an answer of the search capability: how the
\* call ended and the tool's last_sources afterwards
Execute(before, answer) ==
    CASE answer.kind = "matches" ->
            [outcome |-> Returned(JoinSections(answer.passages)),
             last_sources |-> RecordedSources(before, answer.passages)]
      [] answer.kind = "empty" ->
            [outcome |-> Returned(<<"No relevant content found">>), last_sources |-> before]
      [] OTHER ->
            [outcome |-> Raised(answer.error), last_sources |-> before]

\* a dispatch that faults on a name that is not registered
ExecuteToolStrict(reg, sources, ran, name, answer) ==
    IF Resolve(reg, name).none
    THEN [outcome |-> Raised(<<"Tool '", name, "' not found">>),
          last_sources |-> sources, last_ran |-> ran]
    ELSE LET t == Resolve(reg, name).val
             r == Execute(sources[t], answer)
         IN  [outcome |-> r.outcome,
              last_sources |-> [sources EXCEPT ![t] = r.last_sources],
              last_ran |-> Some(t)]

\* ToolManager.execute_tool(name, **kwargs): how the call ended, every tool's
\* last_sources and the tool that ran last afterwards
ExecuteTool(reg, sources, ran, name, answer) ==
    IF Resolve(reg, name).none
    THEN [outcome |-> Returned(<<"Tool '", name, "' not found">>),
          last_sources |-> sources, last_ran |-> ran]
    ELSE LET t == Resolve(reg, name).val
             r == Execute(sources[t], answer)
         IN  [outcome |-> r.outcome,
              last_sources |-> [sources EXCEPT ![t] = r.last_sources],
              last_ran |-> Some(t)]

\* ToolManager.get_last_sources(): what the tool that ran last recorded
GetLastSources(sources, ran) == IF ran.none THEN <<>> ELSE sources[ran.val]

\* a reset that empties only the tool that ran last
ResetSourcesOfLast(sources, ran) ==
    IF ran.none THEN sources ELSE [sources EXCEPT ![ran.val] = <<>>]

\* ToolManager.reset_sources(): every tool's last_sources afterwards
ResetSources(sources, ran) == [t \in DOMAIN sources |-> <<>>]

----------------------------------------------------------------------------
(* The tool manager on its own: any sequence of its operations *)

\* bookkeeping in ledger: cleared, no tool has formatted results since the last
\* reset_sources; fresh, the last operation was an execute_tool that formatted results;
\* formatted, the passages of the last two formatting steps since the last reset_sources

\* the record of one operation on the manager
Op(name, arg, result) == [op |-> name, arg |-> arg, outcome |-> result]

\* ToolManager(): no tool registered, nothing recorded
RegistryInit ==
    /\ GeneratorIdle
    /\ manager_tools = <<>>
    /\ last_sources = [t \in ToolInstances |-> <<>>]
    /\ last_ran = None
    /\ op_result = Op("ToolManager", "", Returned(<<>>))
    /\ frame = <<>>
    /\ ledger = [cleared |-> FALSE, fresh |-> FALSE, formatted |-> <<>>]

\* manager.register_tool(t)
RegisterToolOp(t) ==
    LET r == RegisterTool(manager_tools, t)
    IN  /\ manager_tools' = r.tools
        /\ op_result' = Op("register_tool", t, r.outcome)
        /\ UNCHANGED <<last_sources, last_ran, frame, ledger>>
        /\ UNCHANGED vars

\* the last two entries of a sequence
LastTwo(seq) == IF Len(seq) > 2 THEN SubSeq(seq, Len(seq) - 1, Len(seq)) ELSE seq

\* the execute of a retrieval tool has formatted results
Formatted(answer) == answer.kind = "matches"

\* manager.execute_tool(name, ...), the search capability answering with answer
ExecuteToolOp(name, answer) ==
    LET r == ExecuteTool(manager_tools, last_sources, last_ran, name, answer)
    IN  /\ last_sources' = r.last_sources
        /\ last_ran' = r.last_ran
        /\ op_result' = Op("execute_tool", name, r.outcome)
        /\ ledger' = IF Formatted(answer) /\ ~Resolve(manager_tools, name).none
                     THEN [cleared |-> FALSE, fresh |-> TRUE,
                           formatted |-> LastTwo(Append(ledger.formatted, answer.passages))]
                     ELSE [ledger EXCEPT !.fresh = FALSE]
        /\ UNCHANGED <<manager_tools, frame>>
        /\ UNCHANGED vars

\* manager.get_last_sources()
GetLastSourcesOp ==
    /\ op_result' = Op("get_last_sources", "", Returned(GetLastSources(last_sources, last_ran)))
    /\ UNCHANGED <<manager_tools, last_sources, last_ran, frame, ledger>>
    /\ UNCHANGED vars

\* manager.reset_sources()
ResetSourcesOp ==
    /\ last_sources' = ResetSources(last_sources, last_ran)
    /\ op_result' = Op("reset_sources", "", Returned(<<>>))
    /\ ledger' = [cleared |-> TRUE, fresh |-> FALSE, formatted |-> <<>>]
    /\ UNCHANGED <<manager_tools, last_ran, frame>>
    /\ UNCHANGED vars

RegistryNext ==
    \/ \E t \in ToolInstances : RegisterToolOp(t)
    \/ \E name \in DispatchNames, answer \in SearchAnswers : ExecuteToolOp(name, answer)
    \/ GetLastSourcesOp
    \/ ResetSourcesOp

RegistrySpec == RegistryInit /\ [][RegistryNext]_sysvars

----------------------------------------------------------------------------
(* C24 *)

\* the step registered a tool under a name
Registered(result) == /\ result.op = "register_tool"
                      /\ result.outcome.kind = "return"

\* C24: a registration makes the tool's name resolve to the tool just registered,
\* whatever was registered under the name before, and leaves what every other name
\* resolves to as it was; no other operation changes what a name resolves to.
C24_LastRegistrationWins ==
    [][/\ Registered(op_result') =>
             LET t == op_result'.arg
                 n == DefinitionName(t).val
             IN  /\ Resolve(manager_tools', n) = Some(t)
                 /\ Cardinality({i \in 1..Len(manager_tools') : manager_tools'[i].name = n}) = 1
                 /\ \A m \in DispatchNames \ {n} :
                       Resolve(manager_tools', m) = Resolve(manager_tools, m)
       /\ ~Registered(op_result') =>
             \A m \in DispatchNames : Resolve(manager_tools', m) = Resolve(manager_tools, m)
      ]_sysvars

\* search_tool was registered and has run; second_search_tool was then registered under
\* the same name and is the only tool the name resolves to; the other name is untouched
C24_Witness ==
    /\ op_result = Op("register_tool", "second_search_tool", Returned(<<>>))
    /\ last_ran = Some("search_tool")
    /\ manager_tools = <<[name |-> "search_course_content", tool |-> "second_search_tool"],
                         [name |-> "get_course_outline", tool |-> "outline_tool"]>>

----------------------------------------------------------------------------
(* C25 *)

\* C25: registering a tool whose definition has no name raises the ValueError
\* "Tool must have a 'name' ..." and leaves the registered tools as they were.
C25_NamelessRegistrationFails ==
    [][(/\ op_result'.op = "register_tool"
        /\ DefinitionName(op_result'.arg).none) =>
           /\ op_result'.outcome.kind = "raise"
           /\ op_result'.outcome.value[1] = "Tool must have a 'name' in its definition"
           /\ manager_tools' = manager_tools
           /\ last_sources' = last_sources
      ]_sysvars

\* with two tools registered, the registration of the nameless tool was refused
C25_Witness ==
    /\ op_result.op = "register_tool"
    /\ op_result.arg = "unnamed_tool"
    /\ op_result.outcome.kind = "raise"
    /\ Len(manager_tools) = 2

----------------------------------------------------------------------------
(* C26 *)

\* C26: right after reset_sources, and for as long as no retrieval tool has formatted
\* results since the last reset_sources, get_last_sources returns the empty list,
\* whatever tools were executed before and whichever tool runs without results after;
\* a reset_sources that follows a reset_sources changes nothing.
C26_ClearedStaysEmpty ==
    [][/\ ledger'.cleared => GetLastSources(last_sources', last_ran') = <<>>
       /\ (ledger'.cleared /\ op_result'.op = "get_last_sources") =>
             op_result'.outcome = Returned(<<>>)
       /\ (op_result.op = "reset_sources" /\ op_result'.op = "reset_sources") =>
             /\ last_sources' = last_sources
             /\ last_ran' = last_ran
      ]_sysvars

\* after a reset the search tool ran without results and the sources read are empty
C26_Witness ==
    /\ ledger.cleared
    /\ op_result = Op("get_last_sources", "", Returned(<<>>))
    /\ last_ran = Some("search_tool")
    /\ Len(manager_tools) = 2

----------------------------------------------------------------------------
(* RAGSystem.query (rag_system.py): queries of several sessions on the one tool *)
(* manager and the one generator of the RAG system                              *)

Sessions == {"session_1", "session_2"}

\* the question a session asks
Question(p) == IF p = "session_1" THEN "What is machine learning?" ELSE "What is Python?"

\* the prompt RAGSystem.query hands to generate_response
Prompt(p) == <<"Answer this question about course materials: ", Question(p)>>

\* what the inference capability returns to a query: a text, a request for the search
\* tool, or a text with a request for a tool that is not registered
QueryResponses ==
    {[stop_reason |-> "end_turn",
      content |-> <<[type |-> "text", text |-> <<"Test response">>]>>],
     [stop_reason |-> "tool_use",
      content |-> <<[type |-> "tool_use", id |-> "tool_2", name |-> "search_course_content",
                     input |-> <<"query", "machine learning">>]>>],
     [stop_reason |-> "tool_use",
      content |-> <<[type |-> "text", text |-> <<"Test response">>],
                    [type |-> "tool_use", id |-> "tool_3", name |-> "nonexistent_tool",
                     input |-> <<"query", "test">>]>>]}

\* the locals of a query that is not running
IdleFrame ==
    [pc |-> "idle", messages |-> <<>>, round_count |-> 0, response |-> NoResponse, idx |-> 0,
     tool_results |-> <<>>, tool_execution_failed |-> FALSE, answer |-> NoOutcome,
     sources |-> <<>>, result |-> NoOutcome]

\* bookkeeping of one query: the rounds it started, the passages its own tool calls
\* formatted, the faults of the search capability in its tool calls, its calls in order,
\* and whether another query ran while it did
IdleLedger ==
    [rounds |-> 0, formatted |-> <<>>, faults |-> 0, events |-> <<>>, shared |-> FALSE]

\* a query is between its entry and its return
Active(f) == f.pc \notin {"idle", "done", "raised"}

\* RAGSystem.__init__: the search tool and the outline tool are registered
QueryInit ==
    /\ GeneratorIdle
    /\ manager_tools =
           RegisterTool(RegisterTool(<<>>, "search_tool").tools, "outline_tool").tools
    /\ last_sources = [t \in ToolInstances |-> <<>>]
    /\ last_ran = None
    /\ op_result = Op("RAGSystem", "", Returned(<<>>))
    /\ frame = [p \in Sessions |-> IdleFrame]
    /\ ledger = [p \in Sessions |-> IdleLedger]

\* RAGSystem.query(question) is called: generate_response is entered with the prompt,
\* the manager's definitions and the manager
QueryEnter(p) ==
    /\ ~Active(frame[p])
    /\ frame' = [frame EXCEPT ![p] =
                    [IdleFrame EXCEPT !.pc = "loop",
                                      !.messages = <<[role |-> "user", content |-> Prompt(p)]>>]]
    /\ ledger' = [q \in Sessions |->
                    IF q = p
                    THEN [IdleLedger EXCEPT !.shared = \E o \in Sessions \ {p} : Active(frame[o])]
                    ELSE [ledger[q] EXCEPT !.shared = @ \/ Active(frame[q])]]
    /\ UNCHANGED <<manager_tools, last_sources, last_ran, op_result>>
    /\ UNCHANGED vars

\* generate_response ends with out: a raise leaves query, a return goes on to the sources
Leave(f, out) ==
    IF out.kind = "raise"
    THEN [IdleFrame EXCEPT !.pc = "raised", !.result = out]
    ELSE [IdleFrame EXCEPT !.pc = "read", !.answer = out]

\* a round counter kept on the generator object: every running invocation counts the round
StartRoundOnSelf(f, p, resp) ==
    [q \in DOMAIN f |->
        IF q = p
        THEN [f[q] EXCEPT !.round_count = @ + 1,
                          !.messages = Append(@, [role |-> "assistant", content |-> resp.content]),
                          !.response = resp, !.idx = 1, !.tool_results = <<>>,
                          !.tool_execution_failed = FALSE, !.pc = "dispatch"]
        ELSE IF Active(f[q]) THEN [f[q] EXCEPT !.round_count = @ + 1] ELSE f[q]]

\* the start of a round on the locals of p's invocation
StartRound(f, p, resp) ==
    [f EXCEPT ![p] =
        [@ EXCEPT !.round_count = @ + 1,
                  !.messages = Append(@, [role |-> "assistant", content |-> resp.content]),
                  !.response = resp, !.idx = 1, !.tool_results = <<>>,
                  !.tool_execution_failed = FALSE, !.pc = "dispatch"]]

QAtLoopCall(p) == /\ frame[p].pc = "loop"
                  /\ LoopGuard(frame[p].round_count)

QAtFinalCall(p) == \/ frame[p].pc = "final"
                   \/ /\ frame[p].pc = "loop"
                      /\ ~LoopGuard(frame[p].round_count)

\* p's generate_response has ended
Ended(l) == [l EXCEPT !.events = Append(@, "generate_response")]

\* the in-loop call of p raises
QLoopCallFails(p, e) ==
    /\ QAtLoopCall(p)
    /\ frame' = [frame EXCEPT ![p] = Leave(@, LoopExcept(@.round_count, e))]
    /\ ledger' = [ledger EXCEPT ![p] = Ended(@)]
    /\ UNCHANGED <<manager_tools, last_sources, last_ran, op_result>>
    /\ UNCHANGED vars

\* the in-loop call of p returns a tool request: a round starts
QLoopCallStartsRound(p, resp) ==
    /\ QAtLoopCall(p)
    /\ WantsTools(resp, Some("tool_manager"))
    /\ frame' = StartRound(frame, p, resp)
    /\ ledger' = [ledger EXCEPT ![p].rounds = @ + 1]
    /\ UNCHANGED <<manager_tools, last_sources, last_ran, op_result>>
    /\ UNCHANGED vars

\* the in-loop call of p returns anything else: response.content[0].text is returned
QLoopCallReturns(p, resp) ==
    /\ QAtLoopCall(p)
    /\ ~WantsTools(resp, Some("tool_manager"))
    /\ frame' = [frame EXCEPT ![p] =
                    Leave(@, IF FirstText(resp).ok
                             THEN Returned(FirstText(resp).value)
                             ELSE LoopExcept(@.round_count, FirstText(resp).value))]
    /\ ledger' = [ledger EXCEPT ![p] = Ended(@)]
    /\ UNCHANGED <<manager_tools, last_sources, last_ran, op_result>>
    /\ UNCHANGED vars

\* the block the for loop of p is at
QBlock(p) == frame[p].response.content[frame[p].idx]

QAtBlock(p) == /\ frame[p].pc = "dispatch"
               /\ frame[p].idx <= Len(frame[p].response.content)

\* a block that is not a tool_use block is passed over
QSkipBlock(p) ==
    /\ QAtBlock(p)
    /\ QBlock(p).type # "tool_use"
    /\ frame' = [frame EXCEPT ![p].idx = @ + 1]
    /\ UNCHANGED <<manager_tools, last_sources, last_ran, op_result, ledger>>
    /\ UNCHANGED vars

\* the tool_result of a dispatch that ended with out
ToolResultOf(block, out) ==
    IF out.kind = "return"
    THEN ToolResultOk(block, out.value)
    ELSE ToolResultFailed(block, out.value)

\* a tool_use block of p is dispatched through the manager, the search capability
\* answering with answer; a fault is caught and marks the round
QDispatch(p, answer) ==
    /\ QAtBlock(p)
    /\ QBlock(p).type = "tool_use"
    /\ LET r == ExecuteTool(manager_tools, last_sources, last_ran, QBlock(p).name, answer)
       IN  /\ frame' = [frame EXCEPT
                          ![p].tool_results = Append(@, ToolResultOf(QBlock(p), r.outcome)),
                          ![p].tool_execution_failed = @ \/ r.outcome.kind = "raise",
                          ![p].idx = @ + 1]
           /\ last_sources' = r.last_sources
           /\ last_ran' = r.last_ran
           /\ ledger' = [ledger EXCEPT
                           ![p].events = Append(@, "execute_tool"),
                           ![p].faults =
                               IF /\ answer.kind = "fault"
                                  /\ ~Resolve(manager_tools, QBlock(p).name).none
                               THEN @ + 1
                               ELSE @,
                           ![p].formatted =
                               IF /\ Formatted(answer)
                                  /\ ~Resolve(manager_tools, QBlock(p).name).none
                               THEN Append(@, answer.passages)
                               ELSE @]
    /\ UNCHANGED <<manager_tools, op_result>>
    /\ UNCHANGED vars

\* the for loop of p is over: the results are appended, a failed round leaves the loop
QEndRound(p) ==
    /\ frame[p].pc = "dispatch"
    /\ frame[p].idx > Len(frame[p].response.content)
    /\ frame' = [frame EXCEPT
                    ![p].messages = WithToolResults(@, frame[p].tool_results),
                    ![p].pc = AfterRound(frame[p].tool_execution_failed)]
    /\ UNCHANGED <<manager_tools, last_sources, last_ran, op_result, ledger>>
    /\ UNCHANGED vars

\* the final call of p returns
QFinalCallReturns(p, resp) ==
    /\ QAtFinalCall(p)
    /\ frame' = [frame EXCEPT ![p] =
                    Leave(@, IF FirstText(resp).ok
                             THEN Returned(FirstText(resp).value)
                             ELSE FinalExcept(FirstText(resp).value))]
    /\ ledger' = [ledger EXCEPT ![p] = Ended(@)]
    /\ UNCHANGED <<manager_tools, last_sources, last_ran, op_result>>
    /\ UNCHANGED vars

\* the final call of p raises
QFinalCallFails(p, e) ==
    /\ QAtFinalCall(p)
    /\ frame' = [frame EXCEPT ![p] = Leave(@, FinalExcept(e))]
    /\ ledger' = [ledger EXCEPT ![p] = Ended(@)]
    /\ UNCHANGED <<manager_tools, last_sources, last_ran, op_result>>
    /\ UNCHANGED vars

\* sources = self.tool_manager.get_last_sources()
QGetLastSources(p) ==
    /\ frame[p].pc = "read"
    /\ frame' = [frame EXCEPT ![p].sources = GetLastSources(last_sources, last_ran),
                              ![p].pc = "reset"]
    /\ ledger' = [ledger EXCEPT ![p].events = Append(@, "get_last_sources")]
    /\ UNCHANGED <<manager_tools, last_sources, last_ran, op_result>>
    /\ UNCHANGED vars

\* sources that are read again when query returns
SourcesReadAtReturn(read, now) == now

\* the sources query returns: the ones it read, whatever the manager holds now
SourcesReturned(read, now) == read

\* self.tool_manager.reset_sources(), and query returns the answer with the sources
QResetSources(p) ==
    /\ frame[p].pc = "reset"
    /\ last_sources' = ResetSources(last_sources, last_ran)
    /\ frame' = [frame EXCEPT
                    ![p].result =
                        Returned(<<frame[p].answer.value,
                                   SourcesReturned(frame[p].sources,
                                                   GetLastSources(last_sources', last_ran))>>),
                    ![p].pc = "done"]
    /\ ledger' = [ledger EXCEPT ![p].events = Append(@, "reset_sources")]
    /\ UNCHANGED <<manager_tools, last_ran, op_result>>
    /\ UNCHANGED vars

QueryNext ==
    \/ \E p \in Sessions : QueryEnter(p)
    \/ \E p \in Sessions, e \in ApiErrors : QLoopCallFails(p, e)
    \/ \E p \in Sessions, resp \in QueryResponses : QLoopCallStartsRound(p, resp)
    \/ \E p \in Sessions, resp \in QueryResponses : QLoopCallReturns(p, resp)
    \/ \E p \in Sessions : QSkipBlock(p)
    \/ \E p \in Sessions, answer \in SearchAnswers : QDispatch(p, answer)
    \/ \E p \in Sessions : QEndRound(p)
    \/ \E p \in Sessions, resp \in QueryResponses : QFinalCallReturns(p, resp)
    \/ \E p \in Sessions, e \in ApiErrors : QFinalCallFails(p, e)
    \/ \E p \in Sessions : QGetLastSources(p)
    \/ \E p \in Sessions : QResetSources(p)

QuerySpec == QueryInit /\ [][QueryNext]_sysvars

----------------------------------------------------------------------------
(* C22 *)

\* p is inside generate_response
InGenerate(p) == frame[p].pc \in {"loop", "dispatch", "final"}

\* the dispatches p has made in this invocation
OwnDispatches(p) == Len(SelectSeq(ledger[p].events, LAMBDA ev : ev = "execute_tool"))

\* C22: whatever other invocations ran before or run meanwhile on the same generator,
\* the round counter of an invocation counts the rounds this invocation started and
\* nothing else, so it is forced to the final call by the budget only after two rounds of
\* its own; and its message sequence starts with its own prompt and holds one assistant
\* message per round of its own and the results of its own dispatches only.
C22_ScopedToInvocation ==
    \A p \in Sessions :
        InGenerate(p) =>
            /\ frame[p].round_count = ledger[p].rounds
            /\ frame[p].round_count <= max_rounds
            /\ (frame[p].pc = "loop" /\ ~LoopGuard(frame[p].round_count)) =>
                  ledger[p].rounds = max_rounds
            /\ frame[p].messages[1] = [role |-> "user", content |-> Prompt(p)]
            /\ Len(AssistantMessages(frame[p].messages)) = ledger[p].rounds
            /\ Len(frame[p].messages) <= 1 + 2 * ledger[p].rounds
            /\ Len(Answered(Tail(frame[p].messages)))
                 + (IF frame[p].pc = "dispatch" THEN Len(frame[p].tool_results) ELSE 0)
                   = OwnDispatches(p)

\* while session_1 has used its two rounds, session_2 runs with no round counted and
\* only its own prompt in its messages
C22_Witness ==
    /\ frame["session_1"].pc = "loop"
    /\ frame["session_1"].round_count = 2
    /\ Len(frame["session_1"].messages) = 5
    /\ frame["session_2"].pc = "loop"
    /\ frame["session_2"].round_count = 0
    /\ frame["session_2"].messages = <<[role |-> "user", content |-> Prompt("session_2")]>>
    /\ ledger["session_2"].shared

----------------------------------------------------------------------------
(* C23 *)

\* the step dispatches the tool_use block p is at
Dispatches(p) == /\ QAtBlock(p)
                 /\ QBlock(p).type = "tool_use"
                 /\ frame'[p].idx = frame[p].idx + 1

\* the string returned for a name that is not registered
IsNotFound(content, name) == /\ Len(content) = 3
                             /\ content[2] = name
                             /\ content[3] = "' not found"

\* C23: the dispatch of a tool_use block whose name is not registered does not raise:
\* the tool_result appended for the block has the block's identifier and as content the
\* returned string, which holds the name and "not found"; the round is not marked as
\* failed by it, and the manager's tools and recorded sources are as before.
C23_UnknownToolIsAnswered ==
    [][\A p \in Sessions :
          (Dispatches(p) /\ Resolve(manager_tools, QBlock(p).name).none) =>
              /\ Len(frame'[p].tool_results) = Len(frame[p].tool_results) + 1
              /\ LET result == frame'[p].tool_results[Len(frame'[p].tool_results)]
                 IN  /\ result.type = "tool_result"
                     /\ result.tool_use_id = QBlock(p).id
                     /\ IsNotFound(result.content, QBlock(p).name)
              /\ frame'[p].tool_execution_failed = frame[p].tool_execution_failed
              /\ manager_tools' = manager_tools
              /\ last_sources' = last_sources
              /\ last_ran' = last_ran
      ]_sysvars

\* the round that asked for nonexistent_tool is over, its result is in the messages, and
\* the loop goes on to a second in-loop call
C23_Witness ==
    /\ frame["session_1"].pc = "loop"
    /\ frame["session_1"].round_count = 1
    /\ ~frame["session_1"].tool_execution_failed
    /\ Len(frame["session_1"].messages) = 3
    /\ frame["session_1"].messages[3].content[1].content =
           <<"Tool '", "nonexistent_tool", "' not found">>

----------------------------------------------------------------------------
(* C27 *)

\* the attributions of a formatting step: one per passage, in order
AttributionsOf(passages) ==
    [i \in 1..Len(passages) |->
        [text |-> IF passages[i].lesson_number.none
                  THEN <<passages[i].course_title>>
                  ELSE <<passages[i].course_title, " - Lesson ", passages[i].lesson_number.val>>,
         link |-> passages[i].link]]

\* the elements of a sequence
Range(seq) == {seq[i] : i \in 1..Len(seq)}

\* C27: right after a retrieval call has formatted results, the last sources are the
\* attributions of that formatting step, one per section and in order, whatever had
\* been recorded before: after two such calls they are the second call's, and none of
\* the attributions that only the first call produced is among them.
C27_SourcesOverwritten ==
    ledger.fresh =>
        LET second == ledger.formatted[Len(ledger.formatted)]
            read == GetLastSources(last_sources, last_ran)
        IN  /\ read = AttributionsOf(second)
            /\ Len(read) = Len(second)
            /\ Len(ledger.formatted) = 2 =>
                  \A a \in Range(AttributionsOf(ledger.formatted[1])) :
                      a \notin Range(AttributionsOf(second)) => a \notin Range(read)

\* the search tool formatted two sections and then one: the one source is the second
\* call's
C27_Witness ==
    /\ ledger.fresh
    /\ Len(ledger.formatted) = 2
    /\ Len(ledger.formatted[1]) = 2
    /\ Len(ledger.formatted[2]) = 1
    /\ op_result.arg = "search_course_content"
    /\ last_sources["outline_tool"] = <<>>
    /\ GetLastSources(last_sources, last_ran) = <<[text |-> <<"Test Course">>, link |-> None]>>

----------------------------------------------------------------------------
(* C28 *)

\* the attributions the tool calls of p's query recorded
OwnAttributions(p) ==
    UNION {Range(AttributionsOf(ledger[p].formatted[i])) : i \in 1..Len(ledger[p].formatted)}

\* C28: whatever the interleaving of the queries of two sessions, the sources a query
\* returns with its answer are attributions recorded by its own tool calls, and the
\* attributions its last formatting step recorded are not taken away by the other query.
C28_SourcesAreOwn ==
    \A p \in Sessions :
        frame[p].pc = "done" =>
            /\ Range(frame[p].result.value[2]) \subseteq OwnAttributions(p)
            /\ ledger[p].formatted # <<>> => frame[p].result.value[2] # <<>>

----------------------------------------------------------------------------
(* C29 *)

\* how often a call occurs among the calls of a query
Count(events, name) == Len(SelectSeq(events, LAMBDA ev : ev = name))

\* the calls of a query with its dispatches left out
Milestones(events) == SelectSeq(events, LAMBDA ev : ev # "execute_tool")

\* C29: a query reads the sources at most once and resets them at most once, the read
\* only after generate_response has returned and the reset only after the read; a
\* completed query has done each exactly once, in that order, and returns its answer
\* paired with the sources it read before the reset.
C29_ReadOnceThenReset ==
    \A p \in Sessions :
        /\ Milestones(ledger[p].events) \in
              {<<>>, <<"generate_response">>, <<"generate_response", "get_last_sources">>,
               <<"generate_response", "get_last_sources", "reset_sources">>}
        /\ frame[p].pc = "reset" =>
              Milestones(ledger[p].events) = <<"generate_response", "get_last_sources">>
        /\ frame[p].pc = "done" =>
              /\ Milestones(ledger[p].events) =
                     <<"generate_response", "get_last_sources", "reset_sources">>
              /\ Count(ledger[p].events, "get_last_sources") = 1
              /\ Count(ledger[p].events, "reset_sources") = 1
              /\ frame[p].result = Returned(<<frame[p].answer.value, frame[p].sources>>)

\* a completed query that made a tool call returns the source it read, and the manager
\* holds none any more
C29_Witness ==
    /\ frame["session_1"].pc = "done"
    /\ ~ledger["session_1"].shared
    /\ Count(ledger["session_1"].events, "execute_tool") = 1
    /\ frame["session_1"].result.value[2] = <<[text |-> <<"Test Course">>, link |-> None]>>
    /\ GetLastSources(last_sources, last_ran) = <<>>

----------------------------------------------------------------------------
(* C30 *)

\* the tool_results that report a failed dispatch
FailedResults(results) ==
    SelectSeq(results, LAMBDA r : r.content[1] = "Tool execution failed: ")

\* the tool_results of p's invocation, appended to its messages or still to be appended
ResultsOf(p) ==
    Answered(Tail(frame[p].messages))
        \o (IF frame[p].pc = "dispatch" THEN frame[p].tool_results ELSE <<>>)

----------------------------------------------------------------------------
(* C31 *)

\* the calls issued by the statement after the loop
FinalCalls == {i \in 1..Len(api_calls) : api_calls[i].round_info = <<"Final">>}

\* the i-th inference call returned a tool request that started a round
StartedRound(i) == /\ ~api_calls[i].reply.failed
                   /\ api_calls[i].reply.stop_reason = "tool_use"
                   /\ IsSet(tool_manager)

\* C31: the tool-less final call is issued at most once in an invocation; when it
\* is issued, two rounds were counted or a dispatch of the last round failed, it is
\* the last call, and every call before it started a tool round: none of them was
\* returned as the answer and none of them failed.
C31_FinalCallAtMostOnce ==
    /\ Cardinality(FinalCalls) <= 1
    /\ \A i \in FinalCalls :
          /\ i = Len(api_calls)
          /\ Done
          /\ \/ round_count = max_rounds
             \/ tool_execution_failed
          /\ i = round_count + 1
          /\ \A j \in 1..(i - 1) : StartedRound(j)
          /\ ~CarriesTools(i)
    /\ \A j \in 1..Len(api_calls) :
          (j \notin FinalCalls /\ ~StartedRound(j)) => (Done /\ j = Len(api_calls))

\* the final call was issued once, as the second call, after a dispatch of the
\* first round failed, and its result was returned
C31_Witness ==
    /\ Done
    /\ FinalCalls = {2}
    /\ round_count = 1
    /\ tool_execution_failed
    /\ outcome.kind = "return"

----------------------------------------------------------------------------
(* C32 *)

\* what the logger received so far
Log == LogOf(api_calls)

Started(info) ==
    [levelname |-> "INFO", message |-> <<"Anthropic API call started - ">> \o info]

Completed(info) ==
    [levelname |-> "INFO", message |-> <<"Anthropic API call completed - ">> \o info]

\* the record is the error record of a call labelled info
IsFailed(rec, info) ==
    /\ rec.levelname = "ERROR"
    /\ Len(rec.message) > Len(info)
    /\ SubSeq(rec.message, 1, 1 + Len(info)) = <<"Anthropic API call failed - ">> \o info

\* the label C32 gives a call issued after k counted rounds
Label(k, synthesis) ==
    IF synthesis
    THEN <<"Final">>
    ELSE IF k = 0 THEN <<"Initial">> ELSE <<"Round ", IntStr(k + 1)>>

\* the call about to be issued is the one after the loop
Synthesis == \/ pc = "final"
             \/ round_count >= max_rounds

\* C32: every inference call puts exactly two records in the log, a 'started'
\* record and right after it either a 'completed' or a 'failed' record, before
\* the records of the next call; both carry the label 'Initial' when no round was
\* counted, 'Round k+1' after k counted rounds, and 'Final' for the call after
\* the loop.  A step that issues no call logs nothing.
C32_TwoRecordsPerCall ==
    /\ [](Len(Log) = 2 * Len(api_calls))
    /\ [][IF Len(api_calls') = Len(api_calls) + 1
          THEN LET info == Label(round_count, Synthesis)
                   rest == SubSeq(Log', Len(Log) + 1, Len(Log'))
               IN  /\ SubSeq(Log', 1, Len(Log)) = Log
                   /\ Len(rest) = 2
                   /\ rest[1] = Started(info)
                   /\ IF api_calls'[Len(api_calls')].reply.failed
                      THEN IsFailed(rest[2], info)
                      ELSE rest[2] = Completed(info)
          ELSE Log' = Log]_vars

\* three calls were logged: the first as 'Initial' and completed, the second as
\* 'Round 2' and completed, the call after the loop as 'Final' and failed
C32_Witness ==
    /\ Done
    /\ Len(Log) = 6
    /\ Log[1] = Started(<<"Initial">>)
    /\ Log[2] = Completed(<<"Initial">>)
    /\ Log[3] = Started(<<"Round ", "2">>)
    /\ Log[4] = Completed(<<"Round ", "2">>)
    /\ Log[5] = Started(<<"Final">>)
    /\ IsFailed(Log[6], <<"Final">>)

----------------------------------------------------------------------------
(* C33 *)

\* the roles of a message sequence alternate
Alternates(msgs) == \A k \in 1..(Len(msgs) - 1) : msgs[k].role # msgs[k + 1].role

\* C33 as stated: the messages sent with any inference call alternate between the
\* user and the assistant role and end with a user message, whatever the model
\* replies, a tool_use stop with no tool_use block included.
C33_RolesAlternate ==
    \A i \in 1..Len(api_calls) :
        /\ Sent(i) # <<>>
        /\ Sent(i)[1].role = "user"
        /\ Sent(i)[Len(Sent(i))].role = "user"
        /\ Alternates(Sent(i))

----------------------------------------------------------------------------
(* C34 *)

\* the user messages that carry tool results: every user message after the query
ToolResultMessages(msgs) ==
    SelectSeq(SubSeq(msgs, 2, Len(msgs)), LAMBDA m : m.role = "user")

\* C34: between any two steps of an invocation round_count is the number of
\* assistant messages in messages, and the number of user messages with tool results
\* in messages is at most round_count.
C34_RoundsCountAssistantMessages ==
    pc # "idle" =>
        /\ round_count = Len(AssistantMessages(messages))
        /\ Len(ToolResultMessages(messages)) <= round_count
        /\ messages[1] = [role |-> "user", content |-> query]
        /\ \A k \in 1..Len(ToolResultMessages(messages)) :
              /\ ToolResultMessages(messages)[k].content # <<>>
              /\ \A j \in 1..Len(ToolResultMessages(messages)[k].content) :
                    ToolResultMessages(messages)[k].content[j].type = "tool_result"

\* two rounds were counted and two assistant messages appended, but only one
\* round left a user message with results
C34_Witness ==
    /\ Done
    /\ round_count = 2
    /\ Len(AssistantMessages(messages)) = 2
    /\ Len(ToolResultMessages(messages)) = 1
    /\ Len(tool_calls) > 0

----------------------------------------------------------------------------
(* C35 *)

RECURSIVE RequestedBlocks(_)
\* the tool_use blocks of the assistant messages of a message sequence, in order
RequestedBlocks(msgs) ==
    IF msgs = <<>>
    THEN <<>>
    ELSE RequestedBlocks(SubSeq(msgs, 1, Len(msgs) - 1))
         \o IF msgs[Len(msgs)].role = "assistant"
            THEN ToolUses(msgs[Len(msgs)].content)
            ELSE <<>>

\* the tool_use blocks the for loop has passed: those of the earlier rounds, and in
\* a running round those before the position of the loop
BlocksPassed ==
    IF pc = "dispatch"
    THEN RequestedBlocks(SubSeq(messages, 1, Len(messages) - 1))
         \o ToolUses(SubSeq(response.content, 1, idx - 1))
    ELSE RequestedBlocks(messages)

\* C35: the dispatches of an invocation are the tool_use blocks of its
\* tool-requesting responses, one dispatch per block in order, text blocks between
\* them being passed over; there are at most two such responses but a response may
\* hold several blocks; and the assistant message appended for a round holds the
\* whole content of the response, text blocks included.
C35_DispatchesAreToolUseBlocks ==
    /\ Len(tool_calls) = Len(BlocksPassed)
    /\ \A k \in 1..Len(tool_calls) :
          /\ tool_calls[k].name = BlocksPassed[k].name
          /\ tool_calls[k].input = BlocksPassed[k].input
    /\ Len(AssistantMessages(messages)) <= max_rounds
    /\ pc = "dispatch" =>
          messages[Len(messages)] = [role |-> "assistant", content |-> response.content]

\* the first response held a text block and a tool_use block, the second two
\* tool_use blocks: three dispatches in two rounds, and the text block is in the
\* assistant message
C35_Witness ==
    /\ Done
    /\ round_count = max_rounds
    /\ Len(tool_calls) = 3
    /\ Len(messages) = 5
    /\ Len(messages[2].content) = 2
    /\ messages[2].content[1].type = "text"
    /\ messages[2].content[2].type = "tool_use"
    /\ Len(ToolUses(messages[4].content)) = 2

----------------------------------------------------------------------------
(* C36 *)

\* the i-th call is an in-loop call whose response ended the loop, and the first
\* block of that response has no text, or the response has no block
TerminalWithoutText(i) ==
    /\ ~api_calls[i].reply.failed
    /\ api_calls[i].round_info # <<"Final">>
    /\ ~StartedRound(i)
    /\ \/ api_calls[i].reply.first = <<>>
       \/ api_calls[i].reply.first[1].type # "text"

\* C36: when an in-loop response is taken as terminal and response.content[0].text
\* cannot be read, generate_response raises if no round was counted, and otherwise
\* returns a string opening with 'Error in round k+1: ' for k counted rounds; in
\* both cases the call was the last one, so no final call is issued.
C36_TextlessTerminalResponse ==
    \A i \in 1..Len(api_calls) :
        TerminalWithoutText(i) =>
            /\ Done
            /\ i = Len(api_calls)
            /\ i = round_count + 1
            /\ FinalCalls = {}
            /\ IF round_count = 0
               THEN outcome.kind = "raise"
               ELSE /\ outcome.kind = "return"
                    /\ Len(outcome.value) > 3
                    /\ SubSeq(outcome.value, 1, 3) =
                          <<"Error in round ", IntStr(round_count + 1), ": ">>

\* after one counted round the second response ended the turn with no block at all,
\* and 'Error in round 2: ...' was returned
C36_Witness ==
    /\ Done
    /\ Len(api_calls) = 2
    /\ TerminalWithoutText(2)
    /\ api_calls[2].reply.stop_reason = "end_turn"
    /\ api_calls[2].reply.first = <<>>
    /\ round_count = 1
    /\ outcome = Returned(<<"Error in round ", "2", ": ", "list index out of range">>)

====
